---------------------------- MODULE Spec2Model ----------------------------
(***************************************************************************)
(* kompressor: the per-image pipeline Compress.compress                    *)
(* (src/src/kompressor/kompressor.py) and the batch loop of the command    *)
(* line (src/src/kompressor/cli.py), over an explicit file system.         *)
(*                                                                         *)
(* A file name is a sequence of atoms whose last atom is the extension     *)
(* (".png"); concatenating stem, suffix and extension is concatenation of  *)
(* sequences, so "a" + "-o" + ".png" and the file "a-o.png" are the same   *)
(* name.  A directory is a sequence of components, absolute when it starts *)
(* with "/".  A file path is a record [dir, name].                         *)
(***************************************************************************)
EXTENDS Integers, Sequences, FiniteSets, TLC

VARIABLES
    dirs,        \* directory path -> "none" | "dir" | "rodir" | "file"
    files,       \* file path -> content, for the files that exist
    files0,      \* the files as they were before the run
    installed,   \* the external executables found on the search path
    cwd,         \* the process's working directory
    req,         \* worker -> the Compress object's attributes
    wk,          \* worker -> the position and locals of its compress() call
    mainpc,      \* position of the command line's batch loop
    nsub,        \* number of futures submitted so far
    seen,        \* futures already yielded by as_completed
    images_data, \* cli.py images_data: results collected so far
    shown,       \* what the command line printed: results and error messages
    mode,        \* "single": one direct compress() call; "batch": the command
                 \* line; "race": concurrent calls up to the end of EnsureOutputDir;
                 \* "humanize": a call of humanize(); "condenser": the first
                 \* iteration's compress()
    pure         \* the argument, locals and result of a humanize() call

vars == <<dirs, files, files0, installed, cwd, req, wk, mainpc, nsub, seen,
          images_data, shown, mode, pure>>

---------------------------------------------------------------------------
(* Bounds *)

\* Number of images given to one batch.
NumImages == 2

Workers == 1..NumImages

---------------------------------------------------------------------------
(* Paths (pathlib) *)

Root == <<"/">>
DirA == <<"/", "A">>
DirB == <<"/", "B">>
OutAbs == <<"/", "out">>
OutDeep == <<"/", "p", "out">>
OutRel == <<"out">>

IsAbsolute(d) == Len(d) > 0 /\ d[1] = "/"

\* Path(a, b): an absolute second part replaces the first.
JoinDir(a, b) == IF IsAbsolute(b) THEN b ELSE a \o b

\* Path.parent of a directory; the root is its own parent.
ParentDir(d) == IF Len(d) <= 1 THEN d ELSE SubSeq(d, 1, Len(d) - 1)

\* A relative path is resolved against the working directory by the OS.
Resolve(d) == JoinDir(cwd, d)

FilePath(d, n) == [dir |-> d, name |-> n]

Extensions == {".png", ".jpg", ".jpeg", ".webp", ".PNG", ".gif"}

\* Path.suffix: the last dot-part of the file name.
PathSuffix(n) == IF Len(n) > 1 /\ n[Len(n)] \in Extensions THEN n[Len(n)] ELSE ""

\* Path.stem: the file name without its suffix.
PathStem(n) == IF PathSuffix(n) = "" THEN n ELSE SubSeq(n, 1, Len(n) - 1)

\* Path.with_suffix("." + fmt)
DotExt(fmt) ==
    CASE fmt = "png" -> ".png"
      [] fmt = "jpeg" -> ".jpeg"
      [] fmt = "webp" -> ".webp"
      [] OTHER -> ".gif"

WithSuffix(p, fmt) == FilePath(p.dir, PathStem(p.name) \o <<DotExt(fmt)>>)

\* image.suffix[1:].lower()
LowerExt(e) ==
    CASE e = ".png" -> "png"
      [] e = ".PNG" -> "png"
      [] e = ".jpg" -> "jpg"
      [] e = ".jpeg" -> "jpeg"
      [] e = ".webp" -> "webp"
      [] e = ".gif" -> "gif"
      [] OTHER -> ""

---------------------------------------------------------------------------
(* File system *)

NoFile == [kind |-> "absent"]

Exists(fs, p) == p \in DOMAIN fs

Read(fs, p) == IF Exists(fs, p) THEN fs[p] ELSE NoFile

Write(fs, p, c) == [q \in (DOMAIN fs) \cup {p} |-> IF q = p THEN c ELSE fs[q]]

Remove(fs, p) == [q \in (DOMAIN fs) \ {p} |-> fs[q]]

DirKind(d) == IF d \in DOMAIN dirs THEN dirs[d] ELSE "none"

IsDir(d) == DirKind(d) \in {"dir", "rodir"}

\* st_size of a file's content.
StSize(c) == c.bytes


\* Bytes of a freshly generated source image (st_size).
SourceBytes == 3

\* Width and height of a source image.
SourceWidth == 4
SourceHeight == 2

\* The content of the source image with identity i, encoded as fmt.
Image(i, fmt) ==
    [kind |-> "image", img |-> i, fmt |-> fmt,
     dims |-> <<SourceWidth, SourceHeight>>, bytes |-> SourceBytes, packed |-> FALSE]

\* A file that no decoder recognises.
Junk(i) ==
    [kind |-> "junk", img |-> i, fmt |-> "", dims |-> <<0, 0>>, bytes |-> 1,
     packed |-> FALSE]

---------------------------------------------------------------------------
(* Python's exception classes, as far as the except clauses tell them apart *)

OSErrors ==
    {"FileNotFoundError", "FileExistsError", "NotADirectoryError",
     "PermissionError", "SameFileError", "UnidentifiedImageError"}

IsOSError(e) == e \in OSErrors

---------------------------------------------------------------------------
(* Compress: pure helpers *)

\* Compress.types
types ==
    [t \in {"png", "jpeg", "jpg", "webp"} |-> IF t = "jpg" THEN "jpeg" ELSE t]

\* A get_type that takes every file for a PNG.
get_type_lenient(image) == "png"

\* Compress.get_type: the canonical tag, or "ValueError".
get_type(image) ==
    LET image_type == LowerExt(PathSuffix(image.name))
    IN  IF image_type \in DOMAIN types THEN types[image_type] ELSE "ValueError"

\* A create_new_name that puts the suffix after the extension.
create_new_name_suffix_last(r, dest_dir, suffix) ==
    LET name == r.source_image
        base_name == PathStem(name.name) \o <<PathSuffix(name.name)>> \o suffix
    IN  FilePath(JoinDir(name.dir, dest_dir), base_name)

\* Compress.create_new_name
create_new_name(r, dest_dir, suffix) ==
    LET name == r.source_image
        base_name == PathStem(name.name) \o suffix \o <<PathSuffix(name.name)>>
    IN  FilePath(JoinDir(name.dir, dest_dir), base_name)

NoPath == [dir |-> <<>>, name |-> <<>>]

\* Compress.make_filenames: <<dest_name, source_new_name>>
make_filenames(r) ==
    LET source_new_name ==
            IF r.source_extra_name # <<>>
            THEN create_new_name(r, r.source_image.dir, r.source_extra_name)
            ELSE NoPath
        dest_name == create_new_name(r, r.output_dir, r.dest_extra_name)
    IN  <<dest_name, source_new_name>>

\* A dispatch that runs pngquant whatever the tag.
ToolOf_pngquant(tag) == "pngquant"

\* The executable each compress_* method names first in its command.
ToolOf(tag) ==
    CASE tag = "jpeg" -> "jpegoptim"
      [] tag = "png" -> "pngquant"
      [] tag = "webp" -> "cwebp"

\* The option that carries the quality in each command.
FlagOf(tag) ==
    CASE tag = "jpeg" -> "--max"
      [] tag = "png" -> "--quality"
      [] tag = "webp" -> "-q"

\* A compressor pointed at the source instead of the staged copy.
Command_on_source(r, tag, image) ==
    [tool |-> ToolOf(tag),
     flag |-> FlagOf(tag),
     quality |-> IF tag = "png" THEN <<0, r.quality>> ELSE <<r.quality>>,
     input |-> r.source_image,
     output |-> r.source_image]

\* compress_jpeg / compress_png / compress_webp: the command built for image.
Command(r, tag, image) ==
    [tool |-> ToolOf(tag),
     flag |-> FlagOf(tag),
     quality |-> IF tag = "png" THEN <<0, r.quality>> ELSE <<r.quality>>,
     input |-> image,
     output |-> image]

---------------------------------------------------------------------------
(* One compress() call: locals and position *)

envvars == <<files0, installed, cwd, req, mode, pure>>
mainvars == <<mainpc, nsub, seen, images_data, shown>>

NoResult == [compressed_image |-> NoPath]

\* No humanize() call is under way.
NoCall ==
    [fn |-> "", hi |-> 0, lo |-> 0, bytes |-> 0, index |-> 0, pc |-> "off",
     decimals |-> 0, unit |-> "", out |-> ""]

\* The locals of a compress() call that has not begun; pc says where it stands.
NewCall(pc) ==
    [pc |-> pc,
     exc |-> "",                    \* the exception that ended the call
     failed_at |-> "",              \* the step that failed
     steps |-> <<>>,                \* the steps begun, in order
     original_size |-> 0,
     out_dir |-> <<>>,              \* condenser: self._output_dir during the call
     mk |-> <<>>,                   \* pending Path.mkdir calls, innermost last
     made |-> {},                   \* directories this call's os.mkdir created
     compressed_image |-> NoPath,
     renamed_source_image |-> NoPath,
     new_image |-> NoPath,          \* convert_image's new_image
     sizes |-> <<>>,
     resized |-> FALSE,             \* resize_image was called
     cmds |-> <<>>,                 \* external commands run
     returncode |-> 0,              \* exit status of the external command
     result |-> NoResult]           \* the ImageData returned

\* An exception e leaves compress() at step.
Raised(w, step, e) ==
    [wk EXCEPT ![w].pc = "failed", ![w].exc = e, ![w].failed_at = step]

\* Stat, kompressor.py line 216
Stat(w) ==
    /\ wk[w].pc = "Stat"
    /\ LET src == req[w].source_image
           begun == [wk EXCEPT ![w].steps = Append(@, "Stat")]
       IN  IF Exists(files, src)
           THEN wk' = [begun EXCEPT ![w].pc = "EnsureOutputDir",
                                    ![w].original_size = StSize(files[src])]
           ELSE wk' = [begun EXCEPT ![w].pc = "failed",
                                    ![w].exc = "FileNotFoundError",
                                    ![w].failed_at = "Stat"]
    /\ UNCHANGED <<dirs, files, envvars, mainvars>>

\* os.mkdir(d): "ok" or the OSError the kernel answers with.
OsMkdir(d) ==
    IF DirKind(d) # "none" THEN "FileExistsError"
    ELSE IF DirKind(ParentDir(d)) = "none" THEN "FileNotFoundError"
    ELSE IF DirKind(ParentDir(d)) = "file" THEN "NotADirectoryError"
    ELSE IF DirKind(ParentDir(d)) = "rodir" THEN "PermissionError"
    ELSE "ok"

\* What compress() does with no guard at all around mkdir.
MkdirPasses_unguarded(e, d) == FALSE

\* Whether an OSError e of os.mkdir(d) lets compress() go on: Path.mkdir's
\* exist_ok test (the path is a directory), or compress()'s own
\* `except FileExistsError: pass`.
MkdirPasses(e, d) == IsDir(d) \/ e = "FileExistsError"

\* One os.mkdir call of Path.mkdir(parents=True, exist_ok=True): the call on
\* top of stack, made by worker w whose locals are base[w].
MkdirCall(w, base, stack) ==
    LET top == stack[Len(stack)]
        rest == SubSeq(stack, 1, Len(stack) - 1)
        e == OsMkdir(top.path)
        next(st) == IF st = <<>> THEN "Stage" ELSE "Mkdir"
    IN  IF e = "ok"
        THEN /\ dirs' = Write(dirs, top.path, "dir")
             /\ wk' = [base EXCEPT ![w].mk = rest, ![w].pc = next(rest),
                                   ![w].made = @ \cup {top.path}]
        ELSE /\ dirs' = dirs
             /\ IF e = "FileNotFoundError"
                THEN IF top.parents /\ ParentDir(top.path) # top.path
                     THEN wk' = [base EXCEPT ![w].pc = "Mkdir", ![w].mk =
                                   rest \o <<[path |-> top.path, parents |-> FALSE],
                                             [path |-> ParentDir(top.path),
                                              parents |-> TRUE]>>]
                     ELSE wk' = [base EXCEPT ![w].pc = "failed", ![w].exc = e,
                                             ![w].failed_at = "EnsureOutputDir"]
                ELSE IF ~MkdirPasses(e, top.path)
                     THEN wk' = [base EXCEPT ![w].pc = "failed", ![w].exc = e,
                                             ![w].failed_at = "EnsureOutputDir"]
                     ELSE IF IsDir(top.path)
                          \* exist_ok: this Path.mkdir call returns
                          THEN wk' = [base EXCEPT ![w].mk = rest,
                                                  ![w].pc = next(rest)]
                          \* raised by Path.mkdir, passed over by compress()
                          ELSE wk' = [base EXCEPT ![w].mk = <<>>,
                                                  ![w].pc = "Stage"]

\* `if self.output_dir:` (a Path is always true) and
\* self.output_dir.mkdir(parents=True, exist_ok=True) up to its first os.mkdir
EnsureOutputDir(w) ==
    /\ wk[w].pc = "EnsureOutputDir"
    /\ MkdirCall(w, [wk EXCEPT ![w].steps = Append(@, "EnsureOutputDir")],
                 <<[path |-> Resolve(req[w].output_dir), parents |-> TRUE]>>)
    /\ UNCHANGED <<files, envvars, mainvars>>

\* The os.mkdir calls that follow when a parent was missing.
Mkdir(w) ==
    /\ wk[w].pc = "Mkdir"
    /\ MkdirCall(w, wk, wk[w].mk)
    /\ UNCHANGED <<files, envvars, mainvars>>

\* Path.rename(target) on POSIX: "ok" or the OSError; an existing target
\* file is replaced.
OsRename(fs, src, dst) ==
    IF ~Exists(fs, src) THEN "FileNotFoundError"
    ELSE IF DirKind(dst.dir) = "rodir" THEN "PermissionError"
    ELSE "ok"

Renamed(fs, src, dst) == IF src = dst THEN fs ELSE Remove(Write(fs, dst, fs[src]), src)

\* shutil.copy(src, dst): "ok" or the OSError.
ShutilCopy(fs, src, dst) ==
    IF Exists(fs, src) /\ src = dst THEN "SameFileError"
    ELSE IF ~Exists(fs, src) THEN "FileNotFoundError"
    ELSE IF DirKind(dst.dir) = "none" THEN "FileNotFoundError"
    ELSE IF DirKind(dst.dir) = "file" THEN "NotADirectoryError"
    ELSE IF DirKind(dst.dir) = "rodir" /\ ~Exists(fs, dst) THEN "PermissionError"
    ELSE "ok"

\* A staging that moves the file instead of copying it.
Copied_moving(fs, src, dst) == Remove(Write(fs, dst, fs[src]), src)

\* The files after shutil.copy(src, dst) wrote dst.
Copied(fs, src, dst) == Write(fs, dst, fs[src])

\* copy_move: shutil.copy(src, dst), by worker w whose locals are base[w].
CopyCall(w, base, src, dst) ==
    LET e == ShutilCopy(files, src, dst)
    IN  IF e = "ok"
        THEN /\ files' = Copied(files, src, dst)
             /\ wk' = [base EXCEPT ![w].pc = "Convert"]
        ELSE /\ files' = files
             /\ wk' = [base EXCEPT ![w].pc = "failed", ![w].exc = e,
                                   ![w].failed_at = "Stage"]

\* make_filenames() and the first system call of copy_move: the rename of the
\* source when a source suffix is set, the copy otherwise.
Stage(w) ==
    /\ wk[w].pc = "Stage"
    /\ LET names == make_filenames(req[w])
           src == req[w].source_image
           base == [wk EXCEPT ![w].steps = Append(@, "Stage"),
                              ![w].compressed_image = names[1],
                              ![w].renamed_source_image = names[2]]
       IN  IF names[2] # NoPath
           THEN LET e == OsRename(files, src, names[2])
                IN  IF e = "ok"
                    THEN /\ files' = Renamed(files, src, names[2])
                         /\ wk' = [base EXCEPT ![w].pc = "Copy"]
                    ELSE /\ files' = files
                         /\ wk' = [base EXCEPT ![w].pc = "failed", ![w].exc = e,
                                               ![w].failed_at = "Stage"]
           ELSE CopyCall(w, base, src, names[1])
    /\ UNCHANGED <<dirs, envvars, mainvars>>

\* copy_move after the rename: shutil.copy(source_new_name, dest_name)
Copy(w) ==
    /\ wk[w].pc = "Copy"
    /\ CopyCall(w, wk, wk[w].renamed_source_image, wk[w].compressed_image)
    /\ UNCHANGED <<dirs, envvars, mainvars>>

---------------------------------------------------------------------------
(* Pillow: open, save, thumbnail *)

\* Image.open(p): "ok" or the error.
ImageOpen(fs, p) ==
    IF ~Exists(fs, p) THEN "FileNotFoundError"
    ELSE IF fs[p].kind # "image" THEN "UnidentifiedImageError"
    ELSE "ok"

Abs(n) == IF n < 0 THEN -n ELSE n

Max(a, b) == IF a >= b THEN a ELSE b

\* Image.thumbnail((x, y)) on an image of w by h, both x and y positive:
\* never enlarges, keeps the aspect ratio, rounds to the closer of floor and
\* ceiling and never below 1.
Thumbnail(d, size) ==
    LET w == d[1]
        h == d[2]
        x == size[1]
        y == size[2]
    IN  IF x >= w /\ y >= h THEN d
        ELSE IF x * h >= w * y
             THEN LET t == y * w
                      fl == t \div h
                      ce == IF t % h = 0 THEN fl ELSE fl + 1
                      nx == IF Abs(t - fl * h) <= Abs(t - ce * h) THEN fl ELSE ce
                  IN  <<Max(nx, 1), y>>
             ELSE LET t == x * h
                      fl == t \div w
                      ce == IF t % w = 0 THEN fl ELSE fl + 1
                      ny == IF fl = 0 \/ Abs(w * fl - t) * ce <= Abs(w * ce - t) * fl
                            THEN fl ELSE ce
                  IN  <<x, Max(ny, 1)>>

\* img.save(path with the extension of fmt): the re-encoded content.
Converted(c, fmt) == [c EXCEPT !.fmt = fmt, !.packed = FALSE]

\* img.thumbnail(size); img.save(image)
Resized(c, size) ==
    LET nd == Thumbnail(c.dims, size)
    IN  [c EXCEPT !.dims = nd,
                  !.bytes = IF nd # c.dims /\ @ > 1 THEN @ - 1 ELSE @]

\* What a successful run of the external compressor leaves in the file.
Packed(c) == [c EXCEPT !.packed = TRUE, !.bytes = IF @ > 1 THEN @ - 1 ELSE @]

---------------------------------------------------------------------------
(* compress(), lines 230-254 *)

\* convert_image: new_image = image.with_suffix(...); Image.open; img.save
Convert(w) ==
    /\ wk[w].pc = "Convert"
    /\ IF req[w].convert = ""
       THEN /\ wk' = [wk EXCEPT ![w].pc = "Resize"]
            /\ files' = files
       ELSE LET image == wk[w].compressed_image
                new_image == WithSuffix(image, req[w].convert)
                e == ImageOpen(files, image)
                begun == [wk EXCEPT ![w].steps = Append(@, "Convert")]
            IN  IF e = "ok"
                THEN /\ files' = Write(files, new_image,
                                       Converted(files[image], req[w].convert))
                     /\ wk' = [begun EXCEPT ![w].pc = "Unlink",
                                            ![w].new_image = new_image]
                ELSE /\ files' = files
                     /\ wk' = [begun EXCEPT ![w].pc = "failed", ![w].exc = e,
                                            ![w].failed_at = "Convert"]
    /\ UNCHANGED <<dirs, envvars, mainvars>>

\* A convert_image that deletes the original file and returns the old path.
Unlink_old_path(w) ==
    /\ wk[w].pc = "Unlink"
    /\ LET image == wk[w].compressed_image
       IN  IF Exists(files, image)
           THEN /\ files' = Remove(files, image)
                /\ wk' = [wk EXCEPT ![w].pc = "Resize"]
           ELSE /\ files' = files
                /\ wk' = Raised(w, "Convert", "FileNotFoundError")
    /\ UNCHANGED <<dirs, envvars, mainvars>>

\* convert_image: image.unlink(); return new_image
Unlink(w) ==
    /\ wk[w].pc = "Unlink"
    /\ LET image == wk[w].compressed_image
       IN  IF Exists(files, image)
           THEN /\ files' = Remove(files, image)
                /\ wk' = [wk EXCEPT ![w].pc = "Resize",
                                    ![w].compressed_image = wk[w].new_image]
           ELSE /\ files' = files
                /\ wk' = Raised(w, "Convert", "FileNotFoundError")
    /\ UNCHANGED <<dirs, envvars, mainvars>>

\* A size history that keeps the new dimensions only.
SizeHistory_new_only(c, size) == <<Thumbnail(c.dims, size)>>

\* The list resize_image returns ([original_size, new_size]) when a box is
\* set, the one image_dimensions returns ([size]) otherwise.
SizeHistory(c, size) ==
    IF size # <<0, 0>> THEN <<c.dims, Thumbnail(c.dims, size)>> ELSE <<c.dims>>

\* The errors img.thumbnail(size) ends with when a side of size is 0: the
\* division by the height, or the resize to a width of 0 (a division in the
\* decoder's draft mode for some formats).
ThumbnailErrors(size) ==
    IF size[2] = 0 THEN {"ZeroDivisionError"}
    ELSE IF size[1] = 0 THEN {"ValueError", "ZeroDivisionError"}
    ELSE {}

\* resize_image when self.size != (0, 0), image_dimensions otherwise
Resize(w) ==
    /\ wk[w].pc = "Resize"
    /\ LET image == wk[w].compressed_image
           e == ImageOpen(files, image)
           begun == [wk EXCEPT ![w].steps = Append(@, "Resize"),
                               ![w].resized = (req[w].size # <<0, 0>>)]
       IN  IF e # "ok"
           THEN /\ files' = files
                /\ wk' = [begun EXCEPT ![w].pc = "failed", ![w].exc = e,
                                       ![w].failed_at = "Resize"]
           ELSE IF ThumbnailErrors(req[w].size) # {} /\ req[w].size # <<0, 0>>
                THEN /\ files' = files
                     /\ \E te \in ThumbnailErrors(req[w].size) :
                            wk' = [begun EXCEPT ![w].pc = "failed", ![w].exc = te,
                                                ![w].failed_at = "Resize"]
           ELSE IF req[w].size # <<0, 0>>
                THEN /\ files' = Write(files, image, Resized(files[image], req[w].size))
                     /\ wk' = [begun EXCEPT ![w].pc = "Compress",
                                  ![w].sizes = SizeHistory(files[image], req[w].size)]
                ELSE /\ files' = files
                     /\ wk' = [begun EXCEPT ![w].pc = "Compress",
                                  ![w].sizes = SizeHistory(files[image], req[w].size)]
    /\ UNCHANGED <<dirs, envvars, mainvars>>

\* The exit statuses the external compressor can end with on cmd.
ExitCodes(fs, cmd) ==
    IF ImageOpen(fs, cmd.input) = "ok" THEN {0, 1} ELSE {1}

\* get_type, compress_jpeg / compress_png / compress_webp and run_cmd:
\* subprocess.run(cmd, capture_output=True), whose result is dropped.
CompressStep(w) ==
    /\ wk[w].pc = "Compress"
    /\ LET image == wk[w].compressed_image
           image_type == get_type(image)
           begun == [wk EXCEPT ![w].steps = Append(@, "Compress")]
       IN  IF image_type = "ValueError"
           THEN /\ files' = files
                /\ wk' = [begun EXCEPT ![w].pc = "failed", ![w].exc = "ValueError",
                                       ![w].failed_at = "Compress"]
           ELSE LET cmd == Command(req[w], image_type, image)
                IN  IF cmd.tool \notin installed
                    THEN /\ files' = files
                         /\ wk' = [begun EXCEPT ![w].pc = "failed",
                                                ![w].exc = "FileNotFoundError",
                                                ![w].failed_at = "Compress"]
                    ELSE \E rc \in ExitCodes(files, cmd) :
                           /\ files' = IF rc = 0
                                       THEN Write(files, cmd.output,
                                                  Packed(files[cmd.input]))
                                       ELSE files
                           /\ wk' = [begun EXCEPT ![w].pc = "Finalize",
                                                  ![w].cmds = Append(@, cmd),
                                                  ![w].returncode = rc]
    /\ UNCHANGED <<dirs, envvars, mainvars>>

\* compressed_image.stat().st_size; return ImageData(...)
Finalize(w) ==
    /\ wk[w].pc = "Finalize"
    /\ LET image == wk[w].compressed_image
           begun == [wk EXCEPT ![w].steps = Append(@, "Finalize")]
       IN  IF Exists(files, image)
           THEN wk' = [begun EXCEPT ![w].pc = "done",
                          ![w].result =
                              [compressed_image |-> image,
                               source_image |-> req[w].source_image,
                               original_size |-> wk[w].original_size,
                               compressed_size |-> StSize(files[image]),
                               sizes |-> wk[w].sizes]]
           ELSE wk' = [begun EXCEPT ![w].pc = "failed",
                                    ![w].exc = "FileNotFoundError",
                                    ![w].failed_at = "Finalize"]
    /\ UNCHANGED <<dirs, files, envvars, mainvars>>

\* One step of worker w's compress() call.
compress(w) ==
    \/ Stat(w)
    \/ EnsureOutputDir(w)
    \/ Mkdir(w)
    \/ Stage(w)
    \/ Copy(w)
    \/ Convert(w)
    \/ Unlink(w)
    \/ Resize(w)
    \/ CompressStep(w)
    \/ Finalize(w)

---------------------------------------------------------------------------
(* The objects a run starts from *)

AllTools == {"jpegoptim", "pngquant", "cwebp"}

\* cli.py QUALITY, the default of --quality
QUALITY == 80

\* The format Pillow reads from a file with extension e.
FormatOf(e) == IF get_type(FilePath(DirA, <<"x", e>>)) = "ValueError"
               THEN "gif"
               ELSE get_type(FilePath(DirA, <<"x", e>>))

\* Compress(source_image, quality, output_dir) and the attributes set after it.
Request(src, out, ssuf, dsuf, conv, size) ==
    [source_image |-> src, quality |-> QUALITY, output_dir |-> out,
     dest_extra_name |-> dsuf, source_extra_name |-> ssuf,
     size |-> size, convert |-> conv]

NoRequest == Request(NoPath, <<>>, <<>>, <<>>, "", <<0, 0>>)

Suffixes == {<<>>, <<"-o">>}
DestSuffixes == Suffixes \cup {<<"-s">>}
Converts == {"", "png", "webp", "jpeg"}

\* --dimensions: none, a box smaller than the source image, a box with one
\* side left at 0, or a box the source image just fits in.
BoxSide == 2
Sizes ==
    {<<0, 0>>, <<BoxSide, BoxSide>>, <<0, BoxSide>>, <<BoxSide, 0>>,
     <<SourceWidth, SourceHeight>>}

\* Where the output directory stands before the run:
\* <<output_dir, cwd, kind of the resolved output path, kind of the root,
\*   other directories that exist>>
OutSetups ==
    {<<DirA, DirA, "dir", "dir", {}>>,
     <<OutAbs, DirA, "none", "dir", {}>>,
     <<OutAbs, DirA, "none", "rodir", {}>>,
     <<OutAbs, DirA, "dir", "dir", {}>>,
     <<OutAbs, DirA, "file", "dir", {}>>,
     <<OutAbs, DirA, "rodir", "dir", {}>>,
     <<OutDeep, DirA, "none", "dir", {}>>,
     <<OutRel, DirA, "none", "dir", {}>>,
     <<OutRel, DirB, "none", "dir", {}>>,
     <<OutRel, DirB, "none", "dir", {JoinDir(DirA, OutRel)}>>}

\* The directories before the run.
InitDirs(o) ==
    LET base == [d \in {Root, DirA, DirB} \cup o[5] |->
                    IF d = Root THEN o[4] ELSE "dir"]
        out == JoinDir(o[2], o[1])
    IN  IF o[3] = "none" THEN base ELSE Write(base, out, o[3])

\* The source of a direct call: <<extension, state of the file, tools installed>>
SourceSetups ==
    {<<".png", "image", AllTools>>,
     <<".PNG", "image", AllTools>>,
     <<".jpg", "image", AllTools>>,
     <<".gif", "image", AllTools>>,
     <<".png", "junk", AllTools>>,
     <<".png", "absent", AllTools>>,
     <<".png", "image", AllTools \ {"pngquant"}>>}

\* A file of somebody else that stands at path p before the run.
OtherFile(p) == Image(0, FormatOf(PathSuffix(p.name)))

\* --quality: the default and a low one.
LowQuality == 10
Qualities == {QUALITY, LowQuality}

\* A direct call of Compress(...).compress() by worker 1.
InitSingle ==
    \E o \in OutSetups, s \in SourceSetups, ssuf \in Suffixes, dsuf \in DestSuffixes,
       conv \in Converts, size \in Sizes, q \in Qualities, pre \in SUBSET {1, 2} :
        LET src == FilePath(DirA, <<"a", s[1]>>)
            r == [Request(src, o[1], ssuf, dsuf, conv, size) EXCEPT !.quality = q]
            names == make_filenames(r)
            taken == {p \in {names[i] : i \in pre} \ {src, NoPath} :
                        /\ p.dir \in DOMAIN InitDirs(o)
                        /\ InitDirs(o)[p.dir] \in {"dir", "rodir"}}
            own == IF s[2] = "absent" THEN <<>>
                   ELSE [p \in {src} |->
                           IF s[2] = "junk" THEN Junk(1) ELSE Image(1, FormatOf(s[1]))]
        IN  /\ mode = "single"
            /\ cwd = o[2]
            /\ dirs = InitDirs(o)
            /\ installed = s[3]
            /\ req = [w \in Workers |-> IF w = 1 THEN r ELSE NoRequest]
            /\ files = [p \in (DOMAIN own) \cup taken |->
                          IF p \in taken THEN OtherFile(p) ELSE own[p]]
            /\ files0 = files
            /\ wk = [w \in Workers |-> NewCall(IF w = 1 THEN "Stat" ELSE "off")]
            /\ mainpc = "none"
            /\ nsub = 0
            /\ seen = {}
            /\ images_data = <<>>
            /\ shown = <<>>
            /\ pure = NoCall

NextSingle == compress(1)

SpecSingle == InitSingle /\ [][NextSingle]_vars

---------------------------------------------------------------------------
(* humanize(): the arithmetic of kompressor.py lines 29-45; sizes are given
   as hi * 1024^3 + lo, see the humanize() calls below *)

\* The divisor of both humanize functions.
Kilo == 1024

\* kompressor.py humanize: units
units == <<"B", "K", "M", "G">>

\* condenser.py humanize: units
condenser_units == <<"bytes", "KB", "MB", "GB">>

\* round(n / d) of Python 3: to the nearest integer, a tie to the even one.
RoundHalfEven(n, d) ==
    LET q == n \div d
        r == n % d
    IN  IF 2 * r < d THEN q
        ELSE IF 2 * r > d THEN q + 1
        ELSE IF q % 2 = 0 THEN q ELSE q + 1

\* precise_size >= 1024, for precise_size = size / 1024^index
AtLeastKilo(hi, lo, index) ==
    CASE index = 0 -> hi >= 1 \/ lo >= Kilo
      [] index = 1 -> hi >= 1 \/ lo >= Kilo * Kilo
      [] index = 2 -> hi >= 1
      [] OTHER -> hi >= Kilo

\* A loop that goes on dividing whatever the index.
Scaling_unbounded(hi, lo, index) == AtLeastKilo(hi, lo, index)

\* The loop condition: precise_size >= 1024 and index < len(units) - 1
Scaling(hi, lo, index) == AtLeastKilo(hi, lo, index) /\ index < Len(units) - 1

\* A rounding that drops the fraction.
Rounded_down(lo, index) == lo \div (Kilo ^ index)

\* round(precise_size) for index < 2 (the size is below 1024^2 there)
Rounded(lo, index) == RoundHalfEven(lo, Kilo ^ index)

\* round(lo / 1024^3 * 10) without leaving the machine integers
GigaTenths(lo) ==
    LET a == lo \div (Kilo * Kilo)
        b == lo % (Kilo * Kilo)
        c == (10 * b) \div (Kilo * Kilo)
        e == (10 * b) % (Kilo * Kilo)
        s == 10 * a + c
        fl == s \div Kilo
        rem == s % Kilo
    IN  IF 2 * rem < Kilo THEN fl
        ELSE IF 2 * rem > Kilo \/ e > 0 THEN fl + 1
        ELSE IF fl % 2 = 0 THEN fl ELSE fl + 1

\* round(precise_size, 1) in tenths, for index >= 2
Tenths(hi, lo, index) ==
    IF index = 2
    THEN 10 * (lo \div (Kilo * Kilo)) + RoundHalfEven(10 * (lo % (Kilo * Kilo)),
                                                      Kilo * Kilo)
    ELSE 10 * hi + GigaTenths(lo)

\* f"{pretty_size}{units[index]}": an int prints without a fraction, a float
\* with one digit after the point.
Formatted(hi, lo, index) ==
    IF index + 1 \notin DOMAIN units
    THEN [decimals |-> 0, unit |-> "", out |-> "IndexError"]
    ELSE IF index >= 2
    THEN LET t == Tenths(hi, lo, index)
         IN  [decimals |-> 1, unit |-> units[index + 1],
              out |-> ToString(t \div 10) \o "." \o ToString(t % 10)
                          \o units[index + 1]]
    ELSE [decimals |-> 0, unit |-> units[index + 1],
          out |-> ToString(Rounded(lo, index)) \o units[index + 1]]

RECURSIVE HumanizeLoop(_, _, _)
\* humanize: the while loop from index on, then the rounding and the string
HumanizeLoop(hi, lo, index) ==
    IF Scaling(hi, lo, index) THEN HumanizeLoop(hi, lo, index + 1)
    ELSE Formatted(hi, lo, index).out

\* humanize(size) for the size of a file
humanize(size) == HumanizeLoop(0, size, 0)

---------------------------------------------------------------------------
(* cli.py: kompressor(), the batch *)

\* A filter that lets every file through.
IsImageFile_any(p) == TRUE

\* `file.suffix.lower() in image_types`, cli.py lines 122-127
IsImageFile(p) == LowerExt(PathSuffix(p.name)) \in {"png", "jpeg", "jpg", "webp"}

\* The files a batch may be given: <<path, content>>.
BatchSources ==
    {<<FilePath(DirA, <<"a", ".png">>), Image(1, "png")>>,
     <<FilePath(DirB, <<"a", ".png">>), Image(2, "png")>>,
     <<FilePath(DirA, <<"a", "-o", ".png">>), Image(3, "png")>>,
     <<FilePath(DirA, <<"j", ".png">>), Junk(4)>>,
     <<FilePath(DirA, <<"a", ".jpg">>), Image(5, "jpeg")>>,
     <<FilePath(DirA, <<"a", ".gif">>), Image(6, "gif")>>,
     <<FilePath(DirB, <<"b", ".PNG">>), Image(7, "png")>>}

\* --output-dir is resolved to an absolute path and may not be a file.
BatchOutSetups ==
    {o \in OutSetups : IsAbsolute(o[1]) /\ o[3] \in {"none", "dir"} /\ o[4] = "dir"}

\* --convert in the batches explored.
BatchConverts == {"", "png", "webp"}

RECURSIVE Filter(_)
\* image_files: the sources with an image extension, in the order given.
Filter(source) ==
    IF source = <<>> THEN <<>>
    ELSE IF IsImageFile(Head(source)) THEN <<Head(source)>> \o Filter(Tail(source))
    ELSE Filter(Tail(source))

\* The workers that have an image to compress.
ImageFiles == {w \in Workers : req[w] # NoRequest}

InitBatch ==
    \E given \in [Workers -> BatchSources], o \in BatchOutSetups,
       tools \in {AllTools, AllTools \ {"pngquant"}},
       ssuf \in Suffixes, dsuf \in Suffixes, conv \in BatchConverts :
        LET source == [i \in Workers |-> given[i][1]]
            image_files == Filter(source)
            content(p) == (CHOOSE g \in {given[i] : i \in Workers} : g[1] = p)[2]
        IN  /\ mode = "batch"
            /\ cwd = o[2]
            /\ dirs = InitDirs(o)
            /\ installed = tools
            /\ files = [p \in {source[i] : i \in Workers} |-> content(p)]
            /\ files0 = files
            /\ req = [w \in Workers |->
                        IF w <= Len(image_files)
                        THEN Request(image_files[w], o[1], ssuf, dsuf, conv, <<0, 0>>)
                        ELSE NoRequest]
            /\ wk = [w \in Workers |-> NewCall("off")]
            /\ mainpc = "submit"
            /\ nsub = 0
            /\ seen = {}
            /\ images_data = <<>>
            /\ shown = <<>>
            /\ pure = NoCall

\* executor.submit(image.compress), cli.py lines 142-153; after the last
\* image the loop over as_completed(futures) begins.
Submit ==
    /\ mainpc = "submit"
    /\ nsub < Cardinality(ImageFiles)
    /\ nsub' = nsub + 1
    /\ wk' = [wk EXCEPT ![nsub + 1].pc = "queued"]
    /\ mainpc' = IF nsub + 1 = Cardinality(ImageFiles) THEN "collect" ELSE "submit"
    /\ UNCHANGED <<dirs, files, envvars, seen, images_data, shown>>

\* The names of the compressed images of the records of data.
Names(data) == {data[i].compressed_image.name : i \in DOMAIN data}

\* image_data_2_dict, cli.py lines 175-189: one entry per key
\* image.compressed_image.name, a later record replacing an earlier one.
image_data_2_dict(data) ==
    [n \in Names(data) |->
        LET last == CHOOSE i \in DOMAIN data :
                        /\ data[i].compressed_image.name = n
                        /\ \A j \in DOMAIN data :
                              data[j].compressed_image.name = n => j <= i
            image == data[last]
        IN  [bytes |-> [original_size |-> image.original_size,
                        compressed_size |-> image.compressed_size],
             human |-> [original_size |-> humanize(image.original_size),
                        compressed_size |-> humanize(image.compressed_size)],
             dimensions |-> image.sizes]]

\* cli.py lines 168-172: display_info(images_data) prints one row per
\* record; otherwise the JSON text of image_data_2_dict(images_data).
Report(human, data) ==
    [kind |-> "results", human |-> human, data |-> data,
     json |-> IF human THEN <<>> ELSE image_data_2_dict(data)]

\* A batch none of whose sources has an image extension: nothing to submit,
\* an empty report.
NoImages ==
    /\ mainpc = "submit"
    /\ ImageFiles = {}
    /\ \E human \in BOOLEAN : shown' = Append(shown, Report(human, images_data))
    /\ mainpc' = "end"
    /\ UNCHANGED <<dirs, files, envvars, wk, nsub, seen, images_data>>

\* A pool thread takes the work item (the pool has more threads than the
\* batch has images).
Start(w) ==
    /\ wk[w].pc = "queued"
    /\ wk' = [wk EXCEPT ![w].pc = "Stat"]
    /\ UNCHANGED <<dirs, files, envvars, mainvars>>

Finished(w) == wk[w].pc \in {"done", "failed"}

\* A result list that keeps only the latest result.
Appended_replacing(data, image_data) == <<image_data>>

\* images_data.append(image_data), cli.py line 166
Appended(data, image_data) == Append(data, image_data)

\* One turn of `for future in as_completed(futures)`, cli.py lines 156-166;
\* after the last future, display_info(images_data) or the JSON report
\* (lines 168-172).
Collect(w) ==
    /\ mainpc = "collect"
    /\ w \in ImageFiles \ seen
    /\ Finished(w)
    /\ seen' = seen \cup {w}
    /\ IF wk[w].pc = "done"
       THEN LET data == Appended(images_data, wk[w].result)
            IN  /\ images_data' = data
                /\ IF seen' = ImageFiles
                   THEN /\ \E human \in BOOLEAN :
                              shown' = Append(shown, Report(human, data))
                        /\ mainpc' = "end"
                   ELSE UNCHANGED <<mainpc, shown>>
       ELSE /\ images_data' = images_data
            /\ IF wk[w].exc = "FileNotFoundError"
               THEN /\ shown' = Append(shown, [kind |-> "Command not found",
                                               exc |-> wk[w].exc, of |-> w])
                    /\ mainpc' = "exiting"
               ELSE IF IsOSError(wk[w].exc)
                    THEN /\ shown' = Append(shown, [kind |-> "error",
                                                    exc |-> wk[w].exc, of |-> w])
                         /\ mainpc' = "exiting"
                    ELSE /\ shown' = shown
                         /\ mainpc' = "raising"
    /\ UNCHANGED <<dirs, files, envvars, wk, nsub>>

\* sys.exit(1) or an uncaught exception leaves the `with` block: the executor
\* waits for every submitted task, then the process ends.
Exit ==
    /\ mainpc \in {"exiting", "raising"}
    /\ \A w \in ImageFiles : Finished(w)
    /\ mainpc' = IF mainpc = "exiting" THEN "exit1" ELSE "traceback"
    /\ UNCHANGED <<dirs, files, envvars, wk, nsub, seen, images_data, shown>>

Init == InitBatch

Next ==
    \/ Submit
    \/ NoImages
    \/ \E w \in Workers : Start(w)
    \/ \E w \in Workers : compress(w)
    \/ \E w \in Workers : Collect(w)
    \/ Exit

Spec == Init /\ [][Next]_vars

---------------------------------------------------------------------------
(* Concurrent compress() calls racing through EnsureOutputDir *)

\* Number of concurrent calls that share one missing output directory.
NumRacers == 3

Racers == 1..NumRacers

\* Each racer has its own source; the output directory, and for OutDeep its
\* parent too, does not exist yet.
InitRace ==
    \E out \in {OutAbs, OutDeep} :
        LET src(w) == FilePath(DirA, <<"a", w, ".png">>)
        IN  /\ mode = "race"
            /\ cwd = DirA
            /\ dirs = InitDirs(<<out, DirA, "none", "dir", {}>>)
            /\ installed = AllTools
            /\ files = [p \in {src(w) : w \in Racers} |-> Image(1, "png")]
            /\ files0 = files
            /\ req = [w \in Racers |-> Request(src(w), out, <<>>, <<>>, "", <<0, 0>>)]
            /\ wk = [w \in Racers |-> NewCall("Stat")]
            /\ mainpc = "none"
            /\ nsub = 0
            /\ seen = {}
            /\ images_data = <<>>
            /\ shown = <<>>
            /\ pure = NoCall

NextRace == \E w \in Racers : Stat(w) \/ EnsureOutputDir(w) \/ Mkdir(w)

SpecRace == InitRace /\ [][NextRace]_vars

---------------------------------------------------------------------------
(* Properties *)

Source(w) == req[w].source_image
Dest(w) == make_filenames(req[w])[1]
RenamedSource(w) == make_filenames(req[w])[2]

\* The call of worker w has begun step.
Begun(w, step) == \E i \in DOMAIN wk[w].steps : wk[w].steps[i] = step

\* The contents the files had before the run.
OldContents == {files0[p] : p \in DOMAIN files0}

\* C1: in a single compress() call whose source exists, at every point of the
\* call (every state, so also where a crash or a failure stops it) a file with
\* the source's original content stands at the source path or at the
\* renamed-source path.
C1_SourceSurvives ==
    (mode = "single" /\ Exists(files0, Source(1)))
        => \E p \in {Source(1), RenamedSource(1)} \ {NoPath} :
               Exists(files, p) /\ files[p] = files0[Source(1)]

\* C1 witness: the call failed in Stage after the rename: the source path is
\* empty and the renamed source holds the original.
C1_Witness ==
    /\ mode = "single"
    /\ wk[1].pc = "failed"
    /\ wk[1].failed_at = "Stage"
    /\ ~Exists(files, Source(1))
    /\ Exists(files, RenamedSource(1))

\* The path where the original image stands: the renamed source once Stage
\* has renamed it, the source path otherwise.
Holder(w) ==
    IF RenamedSource(w) # NoPath /\ Begun(w, "Stage")
    THEN RenamedSource(w)
    ELSE Source(w)

\* C2: in a single compress() call, convert, resize and the external
\* compressor write the destination copy only: the file holding the original
\* (the source, or the renamed source once a source suffix has been applied)
\* keeps its content throughout and after the call; and when the destination
\* path is the path of the (renamed) source, the call ends in an error of the
\* Stage step, no later step has begun, and no file holds content that did not
\* exist before the call.
C2_OriginalUntouched ==
    (mode = "single" /\ Exists(files0, Source(1)))
        => /\ Read(files, Holder(1)) = files0[Source(1)]
           /\ (Dest(1) = (IF RenamedSource(1) # NoPath THEN RenamedSource(1)
                          ELSE Source(1)))
                 => /\ wk[1].pc \in {"done", "failed"}
                         => (wk[1].pc = "failed" /\
                             wk[1].failed_at \in {"Stat", "EnsureOutputDir", "Stage"})
                    /\ \A i \in DOMAIN wk[1].steps :
                           wk[1].steps[i] \in {"Stat", "EnsureOutputDir", "Stage"}
                    /\ \A p \in DOMAIN files : files[p] \in OldContents

\* C2 witness: a call with a source suffix returned, the destination copy was
\* rewritten by the compressor, and the renamed source exists.
C2_Witness ==
    /\ mode = "single"
    /\ wk[1].pc = "done"
    /\ RenamedSource(1) # NoPath
    /\ Exists(files, RenamedSource(1))
    /\ Read(files, wk[1].compressed_image) # files0[Source(1)]


\* The paths that belong to worker w's request.
Paths(w) == {Source(w), Dest(w), RenamedSource(w)} \ {NoPath}

\* The paths whose file a step creates, replaces, rewrites or removes.
Touched == {p \in (DOMAIN files) \cup (DOMAIN files') : Read(files, p) # Read(files', p)}

\* No image is given to the batch twice.
DistinctSources == \A v, w \in ImageFiles : v # w => Source(v) # Source(w)

\* C3: in a batch of distinct images, a step of one worker never creates,
\* rewrites, replaces or removes the file at a path that is the source,
\* renamed-source or destination path of another worker of the batch.
C3_OwnPathsOnly ==
    [][\A w \in ImageFiles :
         (mode = "batch" /\ DistinctSources /\ wk'[w] # wk[w])
             => \A v \in ImageFiles \ {w} : Touched \cap Paths(v) = {}]_vars

\* C4: when a source suffix is set and the renamed-source path already holds
\* another file, the call ends in an error and that file keeps its content.
C4_RenameCollisionReported ==
    (/\ mode = "single"
     /\ Exists(files0, Source(1))
     /\ RenamedSource(1) # NoPath
     /\ Exists(files0, RenamedSource(1)))
        => /\ Read(files, RenamedSource(1)) = files0[RenamedSource(1)]
           /\ wk[1].pc # "done"

\* C5: when the destination path already holds a file other than the one being
\* staged, the call ends in an error and that file keeps its content.
C5_DestinationNotOverwritten ==
    (/\ mode = "single"
     /\ Exists(files0, Source(1))
     /\ Exists(files0, Dest(1))
     /\ Dest(1) \notin {Source(1), RenamedSource(1)})
        => /\ Read(files, Dest(1)) = files0[Dest(1)]
           /\ wk[1].pc # "done"

\* The output directory of the racing calls.
RaceDir == Resolve(req[1].output_dir)

\* C6: concurrent compress() calls that meet at one missing output directory:
\* none of them fails, each call that has left EnsureOutputDir finds the
\* directory in place, and once all have left it exactly one of them has
\* created it.
C6_MkdirRace ==
    mode = "race"
        => /\ \A w \in Racers : wk[w].pc # "failed"
           /\ \A w \in Racers : wk[w].pc = "Stage" => DirKind(RaceDir) = "dir"
           /\ (\A w \in Racers : wk[w].pc = "Stage")
                 => Cardinality({w \in Racers : RaceDir \in wk[w].made}) = 1

\* C6 witness: every call has left EnsureOutputDir and one of them found the
\* directory already made by another.
C6_Witness ==
    /\ mode = "race"
    /\ \A w \in Racers : wk[w].pc = "Stage"
    /\ \E w \in Racers : RaceDir \notin wk[w].made

\* C7: a call that goes on from EnsureOutputDir to Stage has an output path
\* that exists and is a directory; every other outcome of mkdir ends the call
\* in EnsureOutputDir.
C7_OutputDirIsDirectory ==
    (mode = "single" /\ Begun(1, "Stage")) => IsDir(Resolve(req[1].output_dir))

StepOrder == <<"Stat", "EnsureOutputDir", "Stage", "Convert", "Resize", "Compress",
               "Finalize">>

StepIndex(step) == CHOOSE i \in DOMAIN StepOrder : StepOrder[i] = step

\* Step of worker w's call failed: it raised, or it is the Compress step and
\* the external compressor ended with a non-zero exit status.
StepFailed(w, step) ==
    \/ wk[w].failed_at = step
    \/ step = "Compress" /\ wk[w].cmds # <<>> /\ wk[w].returncode # 0

\* The steps begun are in the fixed order, none twice.
InOrder(w) ==
    \A i, j \in DOMAIN wk[w].steps :
        i < j => StepIndex(wk[w].steps[i]) < StepIndex(wk[w].steps[j])

\* C8: the steps of a call run in the fixed order, each at most once, and
\* after a step failed no later step runs and no ImageData is returned.
C8_StepsInOrderAndAbort ==
    mode = "single"
        => /\ InOrder(1)
           /\ \A i \in DOMAIN StepOrder :
                StepFailed(1, StepOrder[i])
                    => /\ wk[1].steps[Len(wk[1].steps)] = StepOrder[i]
                       /\ wk[1].result = NoResult

\* C9: when the external compressor ran and ended with a non-zero exit status,
\* the call does not return an ImageData.
C9_ToolFailureReported ==
    (mode = "single" /\ wk[1].cmds # <<>> /\ wk[1].returncode # 0)
        => wk[1].result = NoResult

\* The call of worker w ended in an error that concerns its image alone: any
\* error but an external executable that was not found.
PerImageFailure(w) ==
    /\ wk[w].pc = "failed"
    /\ ~(wk[w].failed_at = "Compress" /\ wk[w].exc = "FileNotFoundError")

\* The batch is over.
BatchOver == mainpc \in {"end", "exit1", "traceback"}

\* The result of worker w is in a report the command line printed.
Displayed(w) ==
    \E i \in DOMAIN shown :
        /\ shown[i].kind = "results"
        /\ \E k \in DOMAIN shown[i].data : shown[i].data[k] = wk[w].result

\* C10: when the only failures of a batch of distinct images are per-image
\* failures, the batch ends with the result of every image that was compressed
\* displayed.
C10_BatchSurvivesImageFailure ==
    (/\ mode = "batch"
     /\ DistinctSources
     /\ BatchOver
     /\ \A w \in ImageFiles : wk[w].pc = "failed" => PerImageFailure(w))
        => \A w \in ImageFiles : wk[w].pc = "done" => Displayed(w)

\* The command line reported worker w's failure as a command that was not found.
ReportedNotFound(w) ==
    \E i \in DOMAIN shown : shown[i].kind = "Command not found" /\ shown[i].of = w

\* The call of worker w ended because its external executable was not found.
ToolNotFound(w) ==
    /\ wk[w].pc = "failed"
    /\ wk[w].failed_at = "Compress"
    /\ wk[w].exc = "FileNotFoundError"

\* C11: in a batch of distinct images, a failure is reported as "Command not
\* found" only when the external executable of that image was not found: a
\* missing source at Stat or a missing destination file at Convert, Resize or
\* Finalize is not reported that way.
C11_NotFoundMeansMissingTool ==
    (mode = "batch" /\ DistinctSources)
        => \A w \in ImageFiles : ReportedNotFound(w) => ToolNotFound(w)

\* C12: once the command line has observed a tool-not-found failure, no task
\* that is still waiting in the pool's queue is started.
C12_NoStartAfterToolNotFound ==
    [][(mode = "batch" /\ \E v \in ImageFiles : ReportedNotFound(v) /\ ToolNotFound(v))
           => \A w \in ImageFiles : wk[w].pc = "queued" => wk'[w].pc = "queued"]_vars

---------------------------------------------------------------------------
(* The batch under fair scheduling: the main thread and every pool thread
   keep running while they have a step to take. *)

\* The batches followed to their end: every tool installed, no destination
\* suffix, no conversion or one to png, lower-case extensions.
InitLive ==
    /\ InitBatch
    /\ installed = AllTools
    /\ \A w \in Workers : req[w].dest_extra_name = <<>>
    /\ \A w \in Workers : req[w].convert \in {"", "png"}
    /\ \A p \in DOMAIN files : PathSuffix(p.name) # ".PNG"

SpecLive ==
    /\ InitLive
    /\ [][Next]_vars
    /\ WF_vars(Submit \/ NoImages \/ Exit \/ \E w \in Workers : Collect(w))
    /\ \A w \in Workers : WF_vars(Start(w) \/ compress(w))

\* The result list holds exactly one ImageData per submitted image: it is a
\* rearrangement of the workers' results.
OnePerImage ==
    /\ Len(images_data) = Cardinality(ImageFiles)
    /\ \E f \in [ImageFiles -> DOMAIN images_data] :
          /\ \A v, w \in ImageFiles : v # w => f[v] # f[w]
          /\ \A w \in ImageFiles : images_data[f[w]] = wk[w].result

\* C13: every submitted task eventually completes; a batch whose images all
\* succeed eventually ends with its report, and at that end the result list
\* holds exactly one ImageData per submitted image, in whatever order the
\* workers completed.
C13_AllResultsCollected ==
    /\ \A w \in Workers : (wk[w].pc = "queued") ~> Finished(w)
    /\ (\A w \in ImageFiles : wk[w].pc = "done") ~> (mainpc = "end" /\ OnePerImage)
    /\ [](mainpc = "end" => OnePerImage)

\* C13 witness: a batch of two images ended with the second image's result
\* first in the list.
C13_Witness ==
    /\ mode = "batch"
    /\ mainpc = "end"
    /\ Cardinality(ImageFiles) = 2
    /\ wk[1].result # wk[2].result
    /\ images_data = <<wk[2].result, wk[1].result>>

---------------------------------------------------------------------------
(* Properties of the Convert, Resize and Compress steps and of the names *)

\* The requested target format is the extension the destination copy has.
SameExtension(w) ==
    req[w].convert # "" /\ DotExt(req[w].convert) = PathSuffix(Dest(w).name)

\* C14: when the requested target format equals the destination copy's
\* extension, the Convert step does not run convert_image and the destination
\* file is there for the steps that follow.
C14_ConvertSkippedOnSameFormat ==
    (mode = "single" /\ SameExtension(1))
        => /\ ~Begun(1, "Convert")
           /\ wk[1].pc \in {"Resize", "Compress", "Finalize", "done"}
                 => Exists(files, Dest(1))

\* C15: a call that reaches the Compress step with a file whose extension,
\* lower-cased, is none of png, jpeg, jpg, webp ends there with the
\* unsupported-type error (ValueError), and no external command was run at any
\* point of the call.
C15_UnsupportedTypeRunsNoTool ==
    (/\ mode = "single"
     /\ Begun(1, "Compress")
     /\ LowerExt(PathSuffix(wk[1].compressed_image.name))
            \notin {"png", "jpeg", "jpg", "webp"})
        => /\ wk[1].pc = "failed"
           /\ wk[1].exc = "ValueError"
           /\ wk[1].failed_at = "Compress"
           /\ wk[1].cmds = <<>>

\* C15 witness: a call on a .gif source reached the Compress step and ended in
\* ValueError.
C15_Witness ==
    /\ mode = "single"
    /\ PathSuffix(Source(1).name) = ".gif"
    /\ Begun(1, "Compress")
    /\ wk[1].exc = "ValueError"

C17_CompressedInOutputDir ==
    (mode = "single" /\ wk[1].pc = "done")
        => wk[1].result.compressed_image.dir = Resolve(req[1].output_dir)

\* Stage has computed the names and no conversion has replaced the
\* destination path yet.
NamesStaged(w) ==
    /\ Begun(w, "Stage")
    /\ \/ wk[w].pc \in {"Copy", "Convert", "Unlink"}
       \/ wk[w].pc = "failed" /\ wk[w].failed_at \in {"Stage", "Convert"}

\* C18: the destination file name is the source's stem, the destination
\* suffix and the source's extension; the renamed source is the source's stem,
\* the source suffix and the extension, in the source's directory; with no
\* source suffix the source is not renamed and stays in place, with no
\* destination suffix the destination has the source's file name.
C18_NamesFromSource ==
    (mode = "single" /\ NamesStaged(1))
        => LET n == Source(1).name
               stem == SubSeq(n, 1, Len(n) - 1)
               ext == n[Len(n)]
               ssuf == req[1].source_extra_name
               dsuf == req[1].dest_extra_name
           IN  /\ wk[1].compressed_image.name = stem \o dsuf \o <<ext>>
               /\ dsuf = <<>> => wk[1].compressed_image.name = n
               /\ ssuf # <<>>
                     => /\ wk[1].renamed_source_image
                               = FilePath(Source(1).dir, stem \o ssuf \o <<ext>>)
                        /\ wk[1].pc = "Convert"
                              => Read(files, wk[1].renamed_source_image)
                                     = files0[Source(1)]
               /\ ssuf = <<>>
                     => /\ wk[1].renamed_source_image = NoPath
                        /\ Read(files, Source(1)) = files0[Source(1)]

\* C18 witness: Stage renamed the source with one suffix and copied it to a
\* destination with another.
C18_Witness ==
    /\ mode = "single"
    /\ wk[1].pc = "Convert"
    /\ req[1].source_extra_name = <<"-o">>
    /\ req[1].dest_extra_name = <<"-s">>
    /\ Exists(files, wk[1].compressed_image)
    /\ ~Exists(files, Source(1))

\* Directory d is the directory out, or ends with it when out is relative.
EndsWith(d, out) ==
    /\ Len(d) >= Len(out)
    /\ SubSeq(d, Len(d) - Len(out) + 1, Len(d)) = out

\* C19: after a call with both suffixes set, the returned source_image is the
\* renamed source, a file that exists, and the returned compressed_image
\* carries the destination suffix and lies in the output directory.
C19_RecordNamesRenamedSource ==
    (/\ mode = "single"
     /\ wk[1].pc = "done"
     /\ req[1].source_extra_name # <<>>
     /\ req[1].dest_extra_name # <<>>)
        => /\ wk[1].result.source_image = RenamedSource(1)
           /\ Exists(files, wk[1].result.source_image)
           /\ PathStem(wk[1].result.compressed_image.name)
                  = PathStem(Source(1).name) \o req[1].dest_extra_name
           /\ EndsWith(wk[1].result.compressed_image.dir, req[1].output_dir)

\* C20: when a side of the target box is 0, resize_image is not called, the
\* destination file keeps its encoding and the returned size history has one
\* entry.
C20_ResizeSkippedOnZeroSide ==
    (mode = "single" /\ (req[1].size[1] = 0 \/ req[1].size[2] = 0))
        => /\ ~wk[1].resized
           /\ Begun(1, "Resize") /\ wk[1].failed_at # "Resize"
                 => Len(wk[1].sizes) = 1
           /\ wk[1].pc = "done" => Len(wk[1].result.sizes) = 1

\* C21: the size history of a returned ImageData is a list of one or two
\* (width, height) pairs that begins with the original dimensions; it has one
\* entry when no resize was requested, and two entries, the original and the
\* new dimensions (no larger than the original, within the box), when a
\* resize was performed.
C21_SizeHistory ==
    (mode = "single" /\ wk[1].pc = "done")
        => LET s == wk[1].result.sizes
               box == req[1].size
           IN  /\ Len(s) \in {1, 2}
               /\ s[1] = files0[Source(1)].dims
               /\ box = <<0, 0>> => Len(s) = 1 /\ ~wk[1].resized
               /\ wk[1].resized
                     => /\ Len(s) = 2
                        /\ s[2][1] <= s[1][1] /\ s[2][2] <= s[1][2]
                        /\ s[2][1] <= box[1] /\ s[2][2] <= box[2]
                        /\ s[2] = files[wk[1].result.compressed_image].dims

\* C21 witness: a call with a box smaller than the image returned the
\* original and the smaller dimensions.
C21_Witness ==
    /\ mode = "single"
    /\ wk[1].pc = "done"
    /\ Len(wk[1].result.sizes) = 2
    /\ wk[1].result.sizes[2] # wk[1].result.sizes[1]

---------------------------------------------------------------------------
(* humanize(): kompressor.py lines 29-45 and condenser.py lines 28-42.

   A size is the record [hi, lo] that stands for hi * 1024^3 + lo with
   lo < 1024^3, so that sizes beyond the machine integers of the model
   checker can be given.  Dividing a float by 1024 is exact, so precise_size
   is exactly size / 1024^index and is kept as the pair (size, index). *)

\* One turn of the while loop of kompressor's humanize
HumanizeDivide ==
    /\ pure.fn = "humanize"
    /\ pure.pc = "loop"
    /\ Scaling(pure.hi, pure.lo, pure.index)
    /\ pure' = [pure EXCEPT !.index = @ + 1]
    /\ UNCHANGED <<dirs, files, files0, installed, cwd, req, wk, mainvars, mode>>

\* The rounding and the return of kompressor's humanize
HumanizeReturn ==
    /\ pure.fn = "humanize"
    /\ pure.pc = "loop"
    /\ ~Scaling(pure.hi, pure.lo, pure.index)
    /\ LET f == Formatted(pure.hi, pure.lo, pure.index)
       IN  pure' = [pure EXCEPT !.pc = "done", !.decimals = f.decimals,
                                !.unit = f.unit, !.out = f.out]
    /\ UNCHANGED <<dirs, files, files0, installed, cwd, req, wk, mainvars, mode>>

\* A scaling step that drops the fraction.
CondenserScaled_down(bytes) == bytes \div Kilo

\* condenser's humanize: bytes = round(bytes / 1024)
CondenserScaled(bytes) == RoundHalfEven(bytes, Kilo)

\* One turn of the while loop of condenser's humanize
CondenserDivide ==
    /\ pure.fn = "condenser.humanize"
    /\ pure.pc = "loop"
    /\ pure.bytes >= Kilo /\ pure.index < Len(condenser_units) - 1
    /\ pure' = [pure EXCEPT !.bytes = CondenserScaled(@), !.index = @ + 1]
    /\ UNCHANGED <<dirs, files, files0, installed, cwd, req, wk, mainvars, mode>>

\* bytes = round(bytes, 2), which leaves an int as it is, and the return of
\* condenser's humanize
CondenserReturn ==
    /\ pure.fn = "condenser.humanize"
    /\ pure.pc = "loop"
    /\ ~(pure.bytes >= Kilo /\ pure.index < Len(condenser_units) - 1)
    /\ pure' = [pure EXCEPT !.pc = "done",
                            !.unit = condenser_units[pure.index + 1],
                            !.out = ToString(pure.bytes) \o " "
                                        \o condenser_units[pure.index + 1]]
    /\ UNCHANGED <<dirs, files, files0, installed, cwd, req, wk, mainvars, mode>>

\* Sizes below 1024^3: the boundaries of the units, halves and the round
\* decimal numbers.
SmallSizes ==
    {0, 1, 10, 100, 512, 1000, 1023, 1024, 1025, 1535, 1536, 1537, 2560, 3584,
     10000, 100000, 1000000, 1048063, 1048064, 1048575, 1048576, 1048577,
     1100000, 1572864, 10000000, 100000000, 1000000000, 1073741823}

\* The sizes given to kompressor's humanize, up to 1024^5 and beyond.
HumanizeSizes ==
    {[hi |-> 0, lo |-> n] : n \in SmallSizes}
        \cup {[hi |-> h, lo |-> l] :
                h \in {1, 2, 9, 1023, 1024, 1025, 1048576},
                l \in {0, 1, 53687091, 161061273, 536870912, 1073741823}}

\* The rest of the program is idle during a humanize() call.
Idle ==
    /\ cwd = Root
    /\ dirs = [d \in {Root} |-> "dir"]
    /\ files = <<>>
    /\ files0 = files
    /\ installed = AllTools
    /\ req = [w \in Workers |-> NoRequest]
    /\ wk = [w \in Workers |-> NewCall("off")]
    /\ mainpc = "none"
    /\ nsub = 0
    /\ seen = {}
    /\ images_data = <<>>
    /\ shown = <<>>

\* The intermediate iteration's humanize (src/src/condenser/condenser.py):
\* pretty_size = round(size, 1) if index >= 2 else round(size), both of the
\* int argument size, which round returns as it is.
Pretty(size, index) == size

\* One turn of the while loop of the intermediate iteration's humanize
IntermediateDivide ==
    /\ pure.fn = "intermediate.humanize"
    /\ pure.pc = "loop"
    /\ Scaling(pure.hi, pure.lo, pure.index)
    /\ pure' = [pure EXCEPT !.index = @ + 1]
    /\ UNCHANGED <<dirs, files, files0, installed, cwd, req, wk, mainvars, mode>>

\* The rounding and the return of the intermediate iteration's humanize;
\* bytes keeps the number printed.
IntermediateReturn ==
    /\ pure.fn = "intermediate.humanize"
    /\ pure.pc = "loop"
    /\ ~Scaling(pure.hi, pure.lo, pure.index)
    /\ LET pretty_size == Pretty(pure.lo, pure.index)
       IN  pure' = [pure EXCEPT !.pc = "done",
                                !.bytes = pretty_size,
                                !.unit = units[pure.index + 1],
                                !.out = ToString(pretty_size) \o units[pure.index + 1]]
    /\ UNCHANGED <<dirs, files, files0, installed, cwd, req, wk, mainvars, mode>>

InitHumanize ==
    /\ mode = "humanize"
    /\ Idle
    /\ \/ \E s \in HumanizeSizes :
            pure = [NoCall EXCEPT !.fn = "humanize", !.hi = s.hi, !.lo = s.lo,
                                  !.pc = "loop"]
       \/ \E n \in SmallSizes :
            pure = [NoCall EXCEPT !.fn = "condenser.humanize", !.lo = n,
                                  !.bytes = n, !.pc = "loop"]
       \/ \E n \in SmallSizes :
            pure = [NoCall EXCEPT !.fn = "intermediate.humanize", !.lo = n,
                                  !.pc = "loop"]

NextHumanize ==
    \/ HumanizeDivide
    \/ HumanizeReturn
    \/ CondenserDivide
    \/ CondenserReturn
    \/ IntermediateDivide
    \/ IntermediateReturn

SpecHumanize == InitHumanize /\ [][NextHumanize]_vars

\* humanize(n) of kompressor has returned, for n below 1024^3.
Humanized(n) ==
    /\ pure.fn = "humanize"
    /\ pure.pc = "done"
    /\ pure.hi = 0
    /\ pure.lo = n

\* C22: kompressor's humanize returns "0B" for 0, "1023B" for 1023, "1K" for
\* 1024 and "977K" for 1000000.
C22_HumanizeExamples ==
    /\ Humanized(0) => pure.out = "0B"
    /\ Humanized(1023) => pure.out = "1023B"
    /\ Humanized(1024) => pure.out = "1K"
    /\ Humanized(1000000) => pure.out = "977K"

\* C22 witness: humanize(1000000) has returned "977K".
C22_Witness == Humanized(1000000) /\ pure.out = "977K"

\* C23: kompressor's humanize prints no decimal place for the units B, K and
\* M and one decimal place for G only; 1000000000 is rendered "954M".
C23_DecimalsOnlyForG ==
    (pure.fn = "humanize" /\ pure.pc = "done")
        => /\ pure.unit \in {"B", "K", "M"} => pure.decimals = 0
           /\ pure.unit = "G" => pure.decimals = 1
           /\ Humanized(1000000000) => pure.out = "954M"

\* C24: kompressor's humanize divides at most three times, and the unit is B
\* below 1024, K from 1024 to below 1024^2, M from 1024^2 to below 1024^3 and
\* G from 1024^3 on, however large the size.
C24_UnitByMagnitude ==
    pure.fn = "humanize"
        => /\ pure.index \in 0..3
           /\ pure.pc = "done"
                 => /\ pure.unit = "B" <=> (pure.hi = 0 /\ pure.lo < Kilo)
                    /\ pure.unit = "K"
                          <=> (pure.hi = 0 /\ pure.lo >= Kilo /\ pure.lo < Kilo * Kilo)
                    /\ pure.unit = "M" <=> (pure.hi = 0 /\ pure.lo >= Kilo * Kilo)
                    /\ pure.unit = "G" <=> pure.hi >= 1
                    /\ pure.index = 3 <=> pure.hi >= 1

\* C24 witness: a size of 1024^5 and more has been rendered in G.
C24_Witness ==
    /\ pure.fn = "humanize"
    /\ pure.pc = "done"
    /\ pure.hi >= Kilo * Kilo
    /\ pure.unit = "G"

\* condenser's humanize(n) has returned.
CondenserHumanized(n) ==
    /\ pure.fn = "condenser.humanize"
    /\ pure.pc = "done"
    /\ pure.lo = n

\* C25: condenser's humanize renders a size as an integer, a space and one of
\* the units bytes, KB, MB, GB, rounding to an integer at every division by
\* 1024: 1000 is "1000 bytes", 10000 "10 KB", 100000 "98 KB", 1000000
\* "977 KB", 10000000 "10 MB" and 1000000000 "954 MB".
C25_CondenserHumanize ==
    /\ CondenserHumanized(1000) => pure.out = "1000 bytes"
    /\ CondenserHumanized(10000) => pure.out = "10 KB"
    /\ CondenserHumanized(100000) => pure.out = "98 KB"
    /\ CondenserHumanized(1000000) => pure.out = "977 KB"
    /\ CondenserHumanized(10000000) => pure.out = "10 MB"
    /\ CondenserHumanized(1000000000) => pure.out = "954 MB"
    /\ (pure.fn = "condenser.humanize" /\ pure.pc = "done")
          => pure.unit \in {"bytes", "KB", "MB", "GB"}

\* C25 witness: condenser's humanize(1000000000) has returned "954 MB".
C25_Witness == CondenserHumanized(1000000000) /\ pure.out = "954 MB"

---------------------------------------------------------------------------
(* The first iteration: Compress.compress of src/condenser/condenser.py,
   lines 209-258, run by the threads of src/condenser/cli.py. *)

\* self._output_dir = None
NoDir == <<"None">>

\* Path('condensed'), the default output directory
CondensedDir == <<"condensed">>

\* The default of quality in Compress.__init__ and of --quality
CondenserQuality == 70

\* old in name / name.replace(old, ''), for a suffix of one atom
Without(name, old) == SelectSeq(name, LAMBDA a : \A i \in DOMAIN old : old[i] # a)

\* Compress.create_new_name(name, suffix): a file name, with no directory
condenser_create_new_name(name, suffix) ==
    PathStem(name) \o suffix \o <<PathSuffix(name)>>

\* Compress._get_type: the extension as written, not lower-cased
condenser_get_type(image) ==
    LET e == PathSuffix(image.name)
    IN  IF e \in {".png", ".jpg", ".jpeg", ".webp"} THEN types[LowerExt(e)]
        ELSE "ValueError"

\* The executable each compress_* method of the first iteration runs; none
\* for webp, whose method only prints.
CondenserToolOf(tag) ==
    CASE tag = "jpeg" -> "xjpegoptim"
      [] tag = "png" -> "pngquant"
      [] OTHER -> ""

\* output_name, lines 223-229
OutputName(r) ==
    IF r.dest_extra_name # <<>>
    THEN condenser_create_new_name(Without(r.source_image.name, r.source_extra_name),
                                   r.dest_extra_name)
    ELSE r.source_image.name

\* The deepest missing ancestor of d whose parent exists, or d itself: the
\* directory the next os.mkdir of Path.mkdir(parents=True) creates.
RECURSIVE FirstMissing(_)
FirstMissing(d) ==
    IF ParentDir(d) # d /\ DirKind(ParentDir(d)) = "none"
    THEN FirstMissing(ParentDir(d))
    ELSE d

\* original_size = self.source_image.stat().st_size, line 209
CondenserStat(w) ==
    /\ wk[w].pc = "c.Stat"
    /\ IF Exists(files, req[w].source_image)
       THEN wk' = [wk EXCEPT ![w].pc = "c.Exists",
                             ![w].original_size = StSize(files[req[w].source_image])]
       ELSE wk' = [wk EXCEPT ![w].pc = "failed", ![w].exc = "FileNotFoundError",
                             ![w].failed_at = "c.Stat"]
    /\ UNCHANGED <<dirs, files, envvars, mainvars>>

\* The default to 'condensed' and the test
\* `if self._output_dir and not self._output_dir.exists()`, lines 212-216
CondenserExists(w) ==
    /\ wk[w].pc = "c.Exists"
    /\ LET r == req[w]
           d == IF r.source_extra_name = <<>> /\ r.dest_extra_name = <<>>
                   /\ r.output_dir = NoDir
                THEN CondensedDir
                ELSE r.output_dir
       IN  wk' = [wk EXCEPT ![w].out_dir = d,
                            ![w].pc = IF d # NoDir /\ DirKind(Resolve(d)) = "none"
                                      THEN "c.Mkdir" ELSE "c.Compress"]
    /\ UNCHANGED <<dirs, files, envvars, mainvars>>

\* self._output_dir.mkdir(parents=True), line 217: one os.mkdir per step;
\* an existing path is an error, there is no exist_ok
CondenserMkdir(w) ==
    /\ wk[w].pc = "c.Mkdir"
    /\ LET d == Resolve(wk[w].out_dir)
           a == FirstMissing(d)
           e == OsMkdir(a)
       IN  IF e = "ok"
           THEN /\ dirs' = Write(dirs, a, "dir")
                /\ wk' = [wk EXCEPT ![w].made = @ \cup {a},
                                    ![w].pc = IF a = d THEN "c.Compress" ELSE "c.Mkdir"]
           ELSE /\ dirs' = dirs
                /\ wk' = [wk EXCEPT ![w].pc = "failed", ![w].exc = e,
                                    ![w].failed_at = "c.Mkdir"]
    /\ UNCHANGED <<files, envvars, mainvars>>

\* Lines 219-249: the output name, _get_type and compress_jpeg (jpegoptim
\* into a temporary directory, then a rename into the output directory),
\* compress_png (pngquant --output) or compress_webp (a print only)
CondenserCompress(w) ==
    /\ wk[w].pc = "c.Compress"
    /\ LET r == req[w]
           d == IF wk[w].out_dir = NoDir THEN cwd ELSE wk[w].out_dir
           image_type == condenser_get_type(r.source_image)
           out == FilePath(d, OutputName(r))
           written == FilePath(Resolve(d), OutputName(r))
           cmd == [tool |-> CondenserToolOf(image_type), flag |-> FlagOf(image_type),
                   quality |-> IF image_type = "png" THEN <<0, r.quality>>
                               ELSE <<r.quality>>,
                   input |-> r.source_image, output |-> written]
           at == [wk EXCEPT ![w].out_dir = d]
       IN  IF image_type = "ValueError"
           THEN /\ files' = files
                /\ wk' = [at EXCEPT ![w].pc = "failed", ![w].exc = "ValueError",
                                    ![w].failed_at = "c.Compress"]
           ELSE IF image_type = "webp"
           THEN /\ files' = files
                /\ wk' = [at EXCEPT ![w].pc = "c.Rename"]
           ELSE IF cmd.tool \notin installed \/ ~Exists(files, r.source_image)
           THEN /\ files' = files
                /\ wk' = [at EXCEPT ![w].pc = "failed", ![w].exc = "FileNotFoundError",
                                    ![w].failed_at = "c.Compress"]
           ELSE \E rc \in (IF IsDir(Resolve(d)) THEN ExitCodes(files, cmd) ELSE {1}) :
                  IF rc # 0 /\ image_type = "jpeg"
                  \* nothing in the temporary directory to rename
                  THEN /\ files' = files
                       /\ wk' = [at EXCEPT ![w].pc = "failed",
                                           ![w].exc = "FileNotFoundError",
                                           ![w].failed_at = "c.Compress",
                                           ![w].cmds = Append(@, cmd),
                                           ![w].returncode = rc]
                  ELSE /\ files' = IF rc = 0
                                   THEN Write(files, written,
                                              Packed(files[r.source_image]))
                                   ELSE files
                       /\ wk' = [at EXCEPT ![w].pc = "c.Rename",
                                           ![w].compressed_image = out,
                                           ![w].cmds = Append(@, cmd),
                                           ![w].returncode = rc]
    /\ UNCHANGED <<dirs, envvars, mainvars>>

\* Lines 251-254: the source is renamed to a bare file name, that is into the
\* working directory
CondenserRename(w) ==
    /\ wk[w].pc = "c.Rename"
    /\ LET r == req[w]
           src == r.source_image
           dst == FilePath(cwd, condenser_create_new_name(src.name, r.source_extra_name))
       IN  IF r.source_extra_name # <<>> /\ Without(src.name, r.source_extra_name) = src.name
           THEN LET e == OsRename(files, src, dst)
                IN  IF e = "ok"
                    THEN /\ files' = Renamed(files, src, dst)
                         /\ wk' = [wk EXCEPT ![w].pc = "c.Finalize",
                                             ![w].renamed_source_image = dst]
                    ELSE /\ files' = files
                         /\ wk' = [wk EXCEPT ![w].pc = "failed", ![w].exc = e,
                                             ![w].failed_at = "c.Rename"]
           ELSE /\ files' = files
                /\ wk' = [wk EXCEPT ![w].pc = "c.Finalize"]
    /\ UNCHANGED <<dirs, envvars, mainvars>>

\* compressed_image.stat().st_size and the return, lines 256-258
CondenserFinalize(w) ==
    /\ wk[w].pc = "c.Finalize"
    /\ LET image == wk[w].compressed_image
           on_disk == FilePath(Resolve(image.dir), image.name)
       IN  IF image = NoPath
           THEN wk' = [wk EXCEPT ![w].pc = "failed", ![w].exc = "AttributeError",
                                 ![w].failed_at = "c.Finalize"]
           ELSE IF ~Exists(files, on_disk)
           THEN wk' = [wk EXCEPT ![w].pc = "failed", ![w].exc = "FileNotFoundError",
                                 ![w].failed_at = "c.Finalize"]
           ELSE wk' = [wk EXCEPT ![w].pc = "done",
                          ![w].result = [compressed_image |-> image,
                                         original_size |-> wk[w].original_size,
                                         compressed_size |-> StSize(files[on_disk])]]
    /\ UNCHANGED <<dirs, files, envvars, mainvars>>

\* The output directories given to the first iteration: none, a missing one,
\* a missing one under a missing parent, an existing one.
CondenserOutDirs == {NoDir, OutAbs, OutDeep, DirA}

\* One or two compress() calls of the first iteration, each on its own source
\* in /A, started from the working directory /B.
InitCondenser ==
    \E n \in 1..NumImages, out \in CondenserOutDirs, ssuf \in Suffixes, dsuf \in Suffixes,
       tools \in {AllTools, AllTools \ {"pngquant"}},
       ext \in [Workers -> {".png", ".jpg", ".webp", ".gif", ".PNG"}] :
        LET src(w) == FilePath(DirA, <<IF w = 1 THEN "a" ELSE "b", ext[w]>>)
        IN  /\ mode = "condenser"
            /\ cwd = DirB
            /\ dirs = [d \in {Root, DirA, DirB} |-> "dir"]
            /\ installed = tools
            /\ files = [p \in {src(w) : w \in 1..n} |->
                          Image(1, FormatOf(PathSuffix(p.name)))]
            /\ files0 = files
            /\ req = [w \in Workers |->
                        IF w <= n
                        THEN [Request(src(w), out, ssuf, dsuf, "", <<0, 0>>)
                                  EXCEPT !.quality = CondenserQuality]
                        ELSE NoRequest]
            /\ wk = [w \in Workers |-> NewCall(IF w <= n THEN "c.Stat" ELSE "off")]
            /\ mainpc = "none"
            /\ nsub = 0
            /\ seen = {}
            /\ images_data = <<>>
            /\ shown = <<>>
            /\ pure = NoCall

NextCondenser ==
    \E w \in Workers :
        \/ CondenserStat(w)
        \/ CondenserExists(w)
        \/ CondenserMkdir(w)
        \/ CondenserCompress(w)
        \/ CondenserRename(w)
        \/ CondenserFinalize(w)

SpecCondenser == InitCondenser /\ [][NextCondenser]_vars

\* Worker w runs the first iteration's compress() with nothing configured,
\* on a JPEG, PNG or WEBP source, with every tool of the README installed.
CondenserDefaults(w) ==
    /\ mode = "condenser"
    /\ req[w] # NoRequest
    /\ req[w].output_dir = NoDir
    /\ req[w].source_extra_name = <<>>
    /\ req[w].dest_extra_name = <<>>
    /\ PathSuffix(req[w].source_image.name) \in {".jpg", ".png", ".webp"}
    /\ installed = AllTools

\* C26: with no output directory, no source rename and no destination rename
\* configured, the first iteration's compress() of a JPEG, a PNG or a WEBP
\* source (run alone, its compressor exiting with status 0) returns a path
\* that exists on disk and whose parent directory is named 'condensed'.
C26_CondensedByDefault ==
    (/\ CondenserDefaults(1)
     /\ req[2] = NoRequest
     /\ Finished(1)
     /\ wk[1].returncode = 0)
        => /\ wk[1].pc = "done"
           /\ LET image == wk[1].result.compressed_image
              IN  /\ Exists(files, FilePath(Resolve(image.dir), image.name))
                  /\ image.dir[Len(image.dir)] = "condensed"

\* C28: when two workers of the first iteration run compress() on the same
\* output directory, neither call ends in an error of the directory
\* creation, whatever the interleaving.
C28_BothPassDirectoryCreation ==
    (mode = "condenser" /\ req[1] # NoRequest /\ req[2] # NoRequest)
        => \A w \in Workers : wk[w].failed_at # "c.Mkdir"

---------------------------------------------------------------------------
(* After the conversion *)

\* The path convert_image writes for worker w: the destination with the
\* extension of the requested format.
NewPath(w) ==
    FilePath(Dest(w).dir, PathStem(Dest(w).name) \o <<DotExt(req[w].convert)>>)

\* convert_image has returned in worker w's call, for a format whose
\* extension is not the destination's.
ConvertedTo(w) ==
    /\ req[w].convert # ""
    /\ ~SameExtension(w)
    /\ \/ wk[w].pc \in {"Resize", "Compress", "Finalize", "done"}
       \/ wk[w].pc = "failed" /\ wk[w].failed_at \in {"Resize", "Compress", "Finalize"}

\* C27: once convert_image has returned for a format whose extension differs
\* from the destination's, the file at the path with the new extension
\* exists and the file at the old path does not; the resize, the type
\* lookup, the compressor and the final stat work on the new path, and the
\* ImageData returned names the new path.
C27_LaterStepsUseConvertedPath ==
    (mode = "single" /\ ConvertedTo(1))
        => /\ Exists(files, NewPath(1))
           /\ ~Exists(files, Dest(1))
           /\ wk[1].compressed_image = NewPath(1)
           /\ wk[1].sizes # <<>>
                 => files[NewPath(1)].dims = wk[1].sizes[Len(wk[1].sizes)]
           /\ \A i \in DOMAIN wk[1].cmds :
                 /\ wk[1].cmds[i].input = NewPath(1)
                 /\ wk[1].cmds[i].output = NewPath(1)
                 /\ wk[1].cmds[i].tool = ToolOf(types[req[1].convert])
           /\ wk[1].failed_at # "Finalize"
           /\ wk[1].pc = "done"
                 => /\ wk[1].result.compressed_image = NewPath(1)
                    /\ wk[1].result.compressed_size = StSize(files[NewPath(1)])

\* C27 witness: a call that converted a PNG destination to WEBP, resized
\* and compressed it, and returned.
C27_Witness ==
    /\ mode = "single"
    /\ ConvertedTo(1)
    /\ req[1].convert = "webp"
    /\ PathSuffix(Dest(1).name) = ".png"
    /\ wk[1].pc = "done"
    /\ wk[1].resized
    /\ wk[1].returncode = 0

\* C29: in a batch of distinct images, under every interleaving of the
\* workers, no call fails at the Finalize step (the destination file it
\* stats exists), and the original and compressed sizes a call returns are
\* not negative.
C29_FinalStatSucceeds ==
    (mode = "batch" /\ DistinctSources)
        => \A w \in ImageFiles :
              /\ wk[w].failed_at # "Finalize"
              /\ wk[w].pc = "done"
                    => /\ wk[w].result.original_size >= 0
                       /\ wk[w].result.compressed_size >= 0

\* The step that worker w takes ends its call in an error.
Fails(w) == wk[w].pc # "failed" /\ wk'[w].pc = "failed"

\* C30: compress() does not roll back. A step that fails leaves every file
\* and directory as the earlier steps made them; when the copy of the Stage
\* step fails after the rename, the source is at its renamed path and the
\* call ends in an error; when Convert, Resize or Compress fails, the staged
\* copy is in the output directory.
C30_NoRollback ==
    [][(mode = "single" /\ Fails(1))
          => /\ files' = files
             /\ dirs' = dirs
             /\ wk[1].pc = "Copy"
                   => /\ Exists(files', RenamedSource(1))
                      /\ ~Exists(files', Source(1))
                      /\ wk'[1].exc # ""
                      /\ wk'[1].result = NoResult
             /\ wk'[1].failed_at \in {"Convert", "Resize", "Compress"}
                   => /\ Exists(files', wk[1].compressed_image)
                      /\ wk[1].compressed_image.dir = Dest(1).dir]_vars

---------------------------------------------------------------------------
(* The intermediate iteration's humanize *)

\* The intermediate iteration's humanize(n) has returned.
IntermediateHumanized(n) ==
    /\ pure.fn = "intermediate.humanize"
    /\ pure.pc = "done"
    /\ pure.lo = n

\* C31: the number the intermediate iteration's humanize prints is the byte
\* count divided by 1024 once per unit step and rounded, so for the units B,
\* K and M it is below 1024 up to rounding; 1000000 is printed as 977 with
\* the unit K.
C31_NumberScaledToUnit ==
    (pure.fn = "intermediate.humanize" /\ pure.pc = "done")
        => /\ pure.unit \in {"B", "K", "M"} => pure.bytes <= Kilo
           /\ pure.index < 2 => pure.bytes = RoundHalfEven(pure.lo, Kilo ^ pure.index)
           /\ IntermediateHumanized(1000000) => pure.bytes = 977 /\ pure.out = "977K"

---------------------------------------------------------------------------
(* The command line's filter and the engine's type lookup *)

\* C32: every image the command line submits passes the type lookup: at the
\* Compress step, with or without a conversion, the file's extension is one
\* get_type knows, and no call of a batch ends with the unsupported-type
\* error.
C32_SubmittedImagesHaveKnownType ==
    mode = "batch"
        => \A w \in ImageFiles :
              /\ IsImageFile(Source(w))
              /\ req[w].convert \in {"", "jpeg", "png", "webp"}
              /\ ~(wk[w].failed_at = "Compress" /\ wk[w].exc = "ValueError")
              /\ (wk[w].pc = "Compress" \/ Begun(w, "Compress"))
                    => get_type(wk[w].compressed_image) # "ValueError"

\* C32 witness: a submitted image with an upper-case extension went through
\* the type lookup and its compressor, and so did a converted one.
C32_Witness ==
    /\ mode = "batch"
    /\ \E w \in ImageFiles :
          /\ PathSuffix(Source(w).name) = ".PNG"
          /\ wk[w].pc = "done"
          /\ wk[w].cmds # <<>>
    /\ \E w \in ImageFiles :
          /\ req[w].convert = "webp"
          /\ wk[w].pc = "done"
          /\ wk[w].cmds # <<>>

---------------------------------------------------------------------------
(* The JSON report *)

\* C33: the JSON report of a batch of distinct images has one entry per
\* ImageData record collected, also when two records have compressed images
\* of the same file name.
C33_OneEntryPerRecord ==
    (mode = "batch" /\ DistinctSources)
        => \A i \in DOMAIN shown :
              (shown[i].kind = "results" /\ ~shown[i].human)
                  => Cardinality(DOMAIN shown[i].json) = Len(shown[i].data)

=============================================================================
